---- MODULE Spec2Model ----
(***************************************************************************)
(* Model of the key-value server's lookup core:                            *)
(*   - LocalLookup (components/internal_server/local_lookup.cc):           *)
(*       GetKeyValues, GetKeyValueSet, RunQuery                            *)
(*   - GetValuesHandler (components/data_server/request_handler/           *)
(*       get_values_handler.cc): GetValues, ProcessKeys, GetKeys           *)
(*   - the Cache they read and the writer that replaces its content.       *)
(* Strings that the code splits are sequences of one-character strings;    *)
(* keys are such sequences too, so that a key produced by splitting is the *)
(* same value as a key held by the cache.                                  *)
(***************************************************************************)
EXTENDS Integers, Sequences, FiniteSets, TLC

VARIABLES
    kv,         \* Cache: key -> Value mapping (partial function)
    sets,       \* Cache: key -> ValueSet mapping (partial function)
    counters,   \* MetricsRecorder: event counters by name
    log,        \* calls observed by the collaborators during the current call
    pc,         \* position of the current LocalLookup call
    call,       \* the current LocalLookup call: operation and arguments
    local,      \* locals of the current LocalLookup call
    ret,        \* what the finished LocalLookup call returned
    snap,       \* history: cache content and counters when the call read the cache
    calls,      \* number of calls started so far
    request,    \* GetValuesHandler: the last GetValuesRequest
    response,   \* GetValuesHandler: the GetValuesResponse it filled
    grpc,       \* GetValuesHandler: the grpc::Status it returned
    use_v2,     \* GetValuesHandler: use_v2_, fixed at construction
    processed   \* history: non-empty groups handled on the direct path so far

vars == <<kv, sets, counters, log, pc, call, local, ret, snap, calls,
          request, response, grpc, use_v2, processed>>

-----------------------------------------------------------------------------
\* Bounds of the model.

\* calls (LocalLookup) or requests (GetValuesHandler) per behaviour
MaxCalls == 2
\* tokens in a query string
MaxQueryLen == 3
\* entries of one GetValuesRequest, all groups together
MaxEntries == 2

-----------------------------------------------------------------------------
\* Data universes.

KeyA == <<"a">>
KeyB == <<"b">>
KeyC == <<"c">>

\* keys the cache may hold
CacheKeys == {KeyA, KeyB}
\* keys a caller may ask for; KeyC is never cached
RequestKeys == {KeyA, KeyB, KeyC}
\* cached point values: "1" is JSON, "x" is not
Values == {"1", "x"}
\* elements of value-sets
Elements == {"x", "y"}

EmptyMap == <<>>

\* the partial functions from subsets of D to R
PartialMaps(D, R) == UNION {[S -> R] : S \in SUBSET D}

KVMaps == PartialMaps(CacheKeys, Values)
SetMaps == PartialMaps(CacheKeys, SUBSET Elements)

absl_kOk == "kOk"
absl_kNotFound == "kNotFound"
absl_kInvalidArgument == "kInvalidArgument"
absl_kInternal == "kInternal"

EmptyCounters == [CacheKeyHit |-> 0, CacheKeyMiss |-> 0, KeysetNotFound |-> 0,
                  LocalRunQuery |-> 0]

IncrementEventCounter(c, name) == [c EXCEPT ![name] = @ + 1]

\* SingleLookupResult: oneof {value, keyset_values, status}
ResultValue(v) == [kind |-> "value", value |-> v]
ResultKeysetValues(s) == [kind |-> "keyset_values", value |-> s]
ResultStatus(code) == [kind |-> "status", value |-> code]

LogEntry(ev, keys) == [ev |-> ev, keys |-> keys]

RECURSIVE SetToSeqs(_)
\* the sequences that list every element of S once, in any order
SetToSeqs(S) ==
    IF S = {} THEN {<<>>}
    ELSE UNION {{<<x>> \o t : t \in SetToSeqs(S \ {x})} : x \in S}

-----------------------------------------------------------------------------
\* Cache (components/data_server/cache/cache.h): read contract.

\* GetKeyValuePairs: only the requested keys that are present
Cache_GetKeyValuePairs(m, keys) ==
    [k \in (keys \cap DOMAIN m) |-> m[k]]

\* GetKeyValueSet: a view over the content at the time of the call
Cache_GetKeyValueSet(m, keys) ==
    [bound |-> TRUE, data |-> [k \in (keys \cap DOMAIN m) |-> m[k]]]

\* GetKeyValueSetResult::GetValueSet: empty when the key is not in the view
GetValueSet(view, key) ==
    IF key \in DOMAIN view.data THEN view.data[key] ELSE {}

\* std::unique_ptr<GetKeyValueSetResult> before it is assigned
NullView == [bound |-> FALSE, data |-> EmptyMap]

-----------------------------------------------------------------------------
\* GetValuesRequest and GetValuesResponse (public/query/get_values.proto).

Groups == {"kv_internal", "keys", "render_urls", "ad_component_render_urls"}

EmptyRequest == [g \in Groups |-> <<>>]
EmptyResponse == [g \in Groups |-> EmptyMap]

-----------------------------------------------------------------------------
\* LocalLookup: state of one call.

NoAst == [op |-> "NONE"]

NoCall == [op |-> "none", keys |-> {}, query |-> <<>>]

NoLocal == [kv_pairs |-> EmptyMap, view |-> NullView, todo |-> {},
            response |-> EmptyMap, ast |-> NoAst]

NoRet == [status |-> "none", kv_pairs |-> EmptyMap, elements |-> <<>>]

\* absl::StatusOr<InternalLookupResponse> holding a response
OkLookupResponse(m) == [status |-> absl_kOk, kv_pairs |-> m, elements |-> <<>>]

\* absl::StatusOr<InternalRunQueryResponse> holding a response
OkRunQueryResponse(e) == [status |-> absl_kOk, kv_pairs |-> EmptyMap, elements |-> e]

\* absl::StatusOr<T> holding a non-OK status and no value
ErrorStatus(code) == [status |-> code, kv_pairs |-> EmptyMap, elements |-> <<>>]

Snapshot == [kv |-> kv, sets |-> sets, counters |-> counters]

NoSnapshot == [kv |-> EmptyMap, sets |-> EmptyMap, counters |-> EmptyCounters]

CanStartCall == pc = "idle" /\ calls < MaxCalls

HandlerUnchanged == UNCHANGED <<request, response, grpc, use_v2, processed>>

-----------------------------------------------------------------------------
\* LocalLookup::GetKeyValues -> ProcessKeys

\* variant: a missing key is given an empty value instead of a status
ProcessKeys_Result_NoStatus(key) ==
    IF key \notin DOMAIN local.kv_pairs
    THEN ResultValue("")
    ELSE ResultValue(local.kv_pairs[key])

\* the SingleLookupResult of one key, from the map the cache returned
ProcessKeys_Result(key) ==
    IF key \notin DOMAIN local.kv_pairs
    THEN ResultStatus(absl_kNotFound)
    ELSE ResultValue(local.kv_pairs[key])

\* entry of ProcessKeys up to the cache read
GetKeyValues(keys) ==
    /\ CanStartCall
    /\ calls' = calls + 1
    /\ call' = [op |-> "GetKeyValues", keys |-> keys, query |-> <<>>]
    /\ snap' = Snapshot
    /\ IF keys = {}
       THEN /\ local' = NoLocal
            /\ log' = <<>>
            /\ ret' = OkLookupResponse(EmptyMap)
            /\ pc' = "done"
       ELSE /\ local' = [NoLocal EXCEPT
                            !.kv_pairs = Cache_GetKeyValuePairs(kv, keys),
                            !.todo = keys]
            /\ log' = <<LogEntry("GetKeyValuePairs", keys)>>
            /\ ret' = NoRet
            /\ pc' = "keys_loop"
    /\ UNCHANGED <<kv, sets, counters>>
    /\ HandlerUnchanged

\* one iteration of the loop over the requested keys
ProcessKeys_Step ==
    /\ pc = "keys_loop"
    /\ \E key \in local.todo :
          local' = [local EXCEPT
                       !.response = (key :> ProcessKeys_Result(key)) @@ @,
                       !.todo = @ \ {key}]
    /\ UNCHANGED <<kv, sets, counters, log, pc, call, ret, snap, calls>>
    /\ HandlerUnchanged

ProcessKeys_Return ==
    /\ pc = "keys_loop"
    /\ local.todo = {}
    /\ ret' = OkLookupResponse(local.response)
    /\ pc' = "done"
    /\ UNCHANGED <<kv, sets, counters, log, call, local, snap, calls>>
    /\ HandlerUnchanged

-----------------------------------------------------------------------------
\* LocalLookup::GetKeyValueSet -> ProcessKeysetKeys

\* the value-set of one key, from the view the cache returned
ProcessKeysetKeys_ValueSet(key) == GetValueSet(local.view, key)

\* variant: the emptiness test is left out
ProcessKeysetKeys_IsMiss_Never(value_set) == FALSE

\* whether ProcessKeysetKeys takes the not-found branch for a value-set
ProcessKeysetKeys_IsMiss(value_set) == value_set = {}

GetKeyValueSet(key_set) ==
    /\ CanStartCall
    /\ calls' = calls + 1
    /\ call' = [op |-> "GetKeyValueSet", keys |-> key_set, query |-> <<>>]
    /\ snap' = Snapshot
    /\ IF key_set = {}
       THEN /\ local' = NoLocal
            /\ log' = <<>>
            /\ ret' = OkLookupResponse(EmptyMap)
            /\ pc' = "done"
       ELSE /\ local' = [NoLocal EXCEPT
                            !.view = Cache_GetKeyValueSet(sets, key_set),
                            !.todo = key_set]
            /\ log' = <<LogEntry("GetKeyValueSet", key_set)>>
            /\ ret' = NoRet
            /\ pc' = "keyset_loop"
    /\ UNCHANGED <<kv, sets, counters>>
    /\ HandlerUnchanged

ProcessKeysetKeys_Step ==
    /\ pc = "keyset_loop"
    /\ \E key \in local.todo :
          LET value_set == ProcessKeysetKeys_ValueSet(key) IN
          IF ProcessKeysetKeys_IsMiss(value_set)
          THEN /\ local' = [local EXCEPT
                              !.response = (key :> ResultStatus(absl_kNotFound)) @@ @,
                              !.todo = @ \ {key}]
               /\ counters' = IncrementEventCounter(counters, "KeysetNotFound")
          ELSE /\ \E values \in SetToSeqs(value_set) :
                    local' = [local EXCEPT
                                 !.response = (key :> ResultKeysetValues(values)) @@ @,
                                 !.todo = @ \ {key}]
               /\ UNCHANGED counters
    /\ UNCHANGED <<kv, sets, log, pc, call, ret, snap, calls>>
    /\ HandlerUnchanged

ProcessKeysetKeys_Return ==
    /\ pc = "keyset_loop"
    /\ local.todo = {}
    /\ ret' = OkLookupResponse(local.response)
    /\ pc' = "done"
    /\ UNCHANGED <<kv, sets, counters, log, call, local, snap, calls>>
    /\ HandlerUnchanged

-----------------------------------------------------------------------------
\* The external writer: replaces the content of one of the cache's mappings
\* in one atomic step.

\* A write that lands after the call has returned and before the caller has
\* taken the result changes nothing the caller sees; it is taken after Finish.
UpdateKeyValues ==
    /\ pc \notin {"done", "aborted"}
    /\ \E m \in KVMaps \ {kv} : kv' = m
    /\ UNCHANGED <<sets, counters, log, pc, call, local, ret, snap, calls>>
    /\ HandlerUnchanged

UpdateKeyValueSets ==
    /\ pc \notin {"done", "aborted"}
    /\ \E m \in SetMaps \ {sets} : sets' = m
    /\ UNCHANGED <<kv, counters, log, pc, call, local, ret, snap, calls>>
    /\ HandlerUnchanged

-----------------------------------------------------------------------------
\* Query engine (components/query: Scanner, Parser, Driver, AST).
\* A query string is its sequence of lexemes; "?" is a character the
\* scanner does not recognise.

KeyTokens == {"a", "b"}
OperatorTokens == {"UNION", "INTERSECTION", "DIFFERENCE"}
Tokens == KeyTokens \cup OperatorTokens \cup {"(", ")", "?"}

\* the key a key-reference token names
TokenKey(t) == <<t>>

Leaf(k) == [op |-> "KEY", key |-> k]
Node(op, l, r) == [op |-> op, left |-> l, right |-> r]

ParseFail == [ok |-> FALSE, ast |-> NoAst, rest |-> <<>>]
ParseOk(ast, rest) == [ok |-> TRUE, ast |-> ast, rest |-> rest]

\* precedence levels, loosest first; level 4 is a key or a parenthesised query
LevelOp(level) ==
    CASE level = 1 -> "UNION"
      [] level = 2 -> "INTERSECTION"
      [] level = 3 -> "DIFFERENCE"

RECURSIVE ParseLevel(_, _), ParseRest(_, _, _)
\* an operand of the given level at the front of toks
ParseLevel(level, toks) ==
    IF level = 4
    THEN IF toks = <<>> THEN ParseFail
         ELSE IF Head(toks) \in KeyTokens
              THEN ParseOk(Leaf(TokenKey(Head(toks))), Tail(toks))
         ELSE IF Head(toks) = "("
              THEN LET r == ParseLevel(1, Tail(toks)) IN
                   IF r.ok /\ r.rest # <<>> /\ Head(r.rest) = ")"
                   THEN ParseOk(r.ast, Tail(r.rest))
                   ELSE ParseFail
         ELSE ParseFail
    ELSE LET l == ParseLevel(level + 1, toks) IN
         IF l.ok THEN ParseRest(level, l.ast, l.rest) ELSE ParseFail

\* the left-associative tail of a level: (op operand)*
ParseRest(level, left, toks) ==
    IF toks # <<>> /\ Head(toks) = LevelOp(level)
    THEN LET r == ParseLevel(level + 1, Tail(toks)) IN
         IF r.ok THEN ParseRest(level, Node(LevelOp(level), left, r.ast), r.rest)
         ELSE ParseFail
    ELSE ParseOk(left, toks)

\* Parser::operator(): 0 and the AST when the whole string is one query,
\* non-zero on a lexical or syntax error
Parse(query) ==
    LET r == ParseLevel(1, query) IN
    IF r.ok /\ r.rest = <<>>
    THEN [parse_result |-> 0, ast |-> r.ast]
    ELSE [parse_result |-> 1, ast |-> NoAst]

RECURSIVE Keys(_)
\* Node::Keys: the keys of the leaves
Keys(ast) ==
    CASE ast.op = "NONE" -> {}
      [] ast.op = "KEY" -> {ast.key}
      [] OTHER -> Keys(ast.left) \cup Keys(ast.right)

RECURSIVE Leaves(_)
\* the leaves in the order of the post-order walk
Leaves(ast) ==
    CASE ast.op = "NONE" -> <<>>
      [] ast.op = "KEY" -> <<ast.key>>
      [] OTHER -> Leaves(ast.left) \o Leaves(ast.right)

RECURSIVE Eval(_, _)
\* Driver::GetResult: the set the AST denotes, leaves resolved through the
\* lookup callback, here over the view the callback refers to
Eval(ast, view) ==
    CASE ast.op = "NONE" -> {}
      [] ast.op = "KEY" -> GetValueSet(view, ast.key)
      [] ast.op = "UNION" -> Eval(ast.left, view) \cup Eval(ast.right, view)
      [] ast.op = "INTERSECTION" -> Eval(ast.left, view) \cap Eval(ast.right, view)
      [] ast.op = "DIFFERENCE" -> Eval(ast.left, view) \ Eval(ast.right, view)

\* the query strings of at most MaxQueryLen lexemes
Queries == UNION {[1..n -> Tokens] : n \in 0..MaxQueryLen}

-----------------------------------------------------------------------------
\* LocalLookup::RunQuery -> ProcessQuery

\* absl::StatusOr<T> built from an absl::Status. An OK status is not a valid
\* argument: a build with NDEBUG logs and stores an Internal error, a debug
\* build logs FATAL and ends the process.
StatusOr_FromStatus(code) ==
    IF code = absl_kOk
    THEN {[aborted |-> FALSE, value |-> ErrorStatus(absl_kInternal)],
          [aborted |-> TRUE, value |-> NoRet]}
    ELSE {[aborted |-> FALSE, value |-> ErrorStatus(code)]}

\* variant: only a negative parse result counts as a failure
ProcessQuery_ParseFailed_Negative(parse_result) == parse_result < 0

\* if (parse_result)
ProcessQuery_ParseFailed(parse_result) == parse_result # 0

\* variant: only the first leaf's key is fetched
ProcessQuery_FetchKeys_FirstLeaf(ast) ==
    IF Leaves(ast) = <<>> THEN {} ELSE {Leaves(ast)[1]}

\* the key set ProcessQuery hands to Cache::GetKeyValueSet
ProcessQuery_FetchKeys(ast) == Keys(ast)

\* variant: the callback reads the cache again when a leaf is resolved
ProcessQuery_CallbackView_Live == Cache_GetKeyValueSet(sets, Keys(local.ast))

\* what the Driver's callback dereferences when evaluation resolves a leaf
ProcessQuery_CallbackView == local.view

\* ~ScopeLatencyRecorder at every return of ProcessQuery
RecordLatency(c) == IncrementEventCounter(c, "LocalRunQuery")

\* entry of ProcessQuery up to the end of parsing
RunQuery(query) ==
    /\ CanStartCall
    /\ calls' = calls + 1
    /\ call' = [op |-> "RunQuery", keys |-> {}, query |-> query]
    /\ snap' = Snapshot
    /\ IF query = <<>>
       THEN /\ \E r \in StatusOr_FromStatus(absl_kOk) :
                  IF r.aborted
                  THEN pc' = "aborted" /\ ret' = NoRet /\ UNCHANGED counters
                  ELSE pc' = "done" /\ ret' = r.value
                       /\ counters' = RecordLatency(counters)
            /\ local' = NoLocal
            /\ log' = <<>>
       ELSE LET p == Parse(query) IN
            /\ log' = <<LogEntry("parse", {})>>
            /\ IF ProcessQuery_ParseFailed(p.parse_result)
               THEN /\ \E r \in StatusOr_FromStatus(absl_kInvalidArgument) :
                          ret' = r.value
                    /\ local' = NoLocal
                    /\ counters' = RecordLatency(counters)
                    /\ pc' = "done"
               ELSE /\ local' = [NoLocal EXCEPT !.ast = p.ast]
                    /\ ret' = NoRet
                    /\ UNCHANGED counters
                    /\ pc' = "parsed"
    /\ UNCHANGED <<kv, sets>>
    /\ HandlerUnchanged

\* get_key_value_set_result = cache_.GetKeyValueSet(..., root->Keys())
ProcessQuery_Fetch ==
    /\ pc = "parsed"
    /\ LET keys == ProcessQuery_FetchKeys(local.ast) IN
       /\ local' = [local EXCEPT !.view = Cache_GetKeyValueSet(sets, keys)]
       /\ log' = Append(log, LogEntry("GetKeyValueSet", keys))
    /\ snap' = [snap EXCEPT !.kv = kv, !.sets = sets]
    /\ pc' = "fetched"
    /\ UNCHANGED <<kv, sets, counters, call, ret, calls>>
    /\ HandlerUnchanged

\* driver.GetResult() and the copy of the result into the response
ProcessQuery_Eval ==
    /\ pc = "fetched"
    /\ LET leaves == Leaves(local.ast)
           result == Eval(local.ast, ProcessQuery_CallbackView)
       IN
       /\ log' = Append(log, LogEntry("GetResult", {}))
                    \o [i \in 1..Len(leaves) |-> LogEntry("callback", {leaves[i]})]
       /\ \E elements \in SetToSeqs(result) :
             ret' = OkRunQueryResponse(elements)
    /\ counters' = RecordLatency(counters)
    /\ pc' = "done"
    /\ UNCHANGED <<kv, sets, call, local, snap, calls>>
    /\ HandlerUnchanged

\* the caller takes the result; the call's locals are gone
Finish ==
    /\ pc = "done"
    /\ pc' = "idle"
    /\ call' = NoCall
    /\ local' = NoLocal
    /\ ret' = NoRet
    /\ log' = <<>>
    /\ snap' = NoSnapshot
    /\ UNCHANGED <<kv, sets, counters, calls>>
    /\ HandlerUnchanged

-----------------------------------------------------------------------------
\* Specifications of LocalLookup, one per operation, each under a writer.

LookupIdle ==
    /\ counters = EmptyCounters
    /\ log = <<>>
    /\ pc = "idle"
    /\ call = NoCall
    /\ local = NoLocal
    /\ ret = NoRet
    /\ snap = NoSnapshot
    /\ calls = 0
    /\ request = EmptyRequest
    /\ response = EmptyResponse
    /\ grpc = "none"
    /\ use_v2 = FALSE
    /\ processed = 0

InitKeys ==
    /\ kv \in KVMaps
    /\ sets = EmptyMap
    /\ LookupIdle

NextKeys ==
    \/ CanStartCall /\ \E keys \in SUBSET RequestKeys : GetKeyValues(keys)
    \/ ProcessKeys_Step
    \/ ProcessKeys_Return
    \/ Finish
    \/ UpdateKeyValues

SpecKeys == InitKeys /\ [][NextKeys]_vars

InitKeyset ==
    /\ kv = EmptyMap
    /\ sets \in SetMaps
    /\ LookupIdle

NextKeyset ==
    \/ CanStartCall /\ \E key_set \in SUBSET RequestKeys : GetKeyValueSet(key_set)
    \/ ProcessKeysetKeys_Step
    \/ ProcessKeysetKeys_Return
    \/ Finish
    \/ UpdateKeyValueSets

SpecKeyset == InitKeyset /\ [][NextKeyset]_vars

InitQuery == InitKeyset

NextQuery ==
    \/ CanStartCall /\ \E query \in Queries : RunQuery(query)
    \/ ProcessQuery_Fetch
    \/ ProcessQuery_Eval
    \/ Finish
    \/ UpdateKeyValueSets

SpecQuery == InitQuery /\ [][NextQuery]_vars

-----------------------------------------------------------------------------
\* GetValuesHandler (get_values_handler.cc).

\* kQueryArgDelimiter
Delimiter == ","

\* the entries a request may carry: one key, one key that is not cached,
\* two keys in one entry, a key followed by a trailing delimiter
Entries == {<<"a">>, <<"c">>, <<"a", ",", "b">>, <<"b", ",">>}

RECURSIVE StrSplit(_, _)
\* absl::StrSplit(text, d): the pieces between the delimiters, empty pieces
\* kept; the empty text gives one empty piece
StrSplit(text, d) ==
    IF \A i \in 1..Len(text) : text[i] # d
    THEN <<text>>
    ELSE LET i == CHOOSE j \in 1..Len(text) :
                     text[j] = d /\ \A h \in 1..(j - 1) : text[h] # d
         IN <<SubSeq(text, 1, i - 1)>> \o StrSplit(SubSeq(text, i + 1, Len(text)), d)

Range(f) == {f[i] : i \in DOMAIN f}

\* variant: the entry is taken whole
GetKeys_Split_Whole(key) == {key}

\* the individual keys of one entry
GetKeys_Split(key) == Range(StrSplit(key, Delimiter))

\* GetKeys: the set of the individual keys of all entries
GetKeys(keys) == UNION {GetKeys_Split(keys[i]) : i \in 1..Len(keys)}

\* google.protobuf.Value
NumberValue(n) == [kind |-> "number_value", number_value |-> n, string_value |-> ""]
StringValue(str) == [kind |-> "string_value", number_value |-> 0, string_value |-> str]

\* google::protobuf::util::JsonStringToMessage into a Value: of the cached
\* values only "1" is JSON text
JsonStringToMessage(text) ==
    IF text = "1"
    THEN [ok |-> TRUE, value |-> NumberValue(1)]
    ELSE [ok |-> FALSE, value |-> StringValue("")]

\* variant: a value that does not decode is reported as a status
Handler_FoundResult_Propagate(cached) ==
    LET decoded == JsonStringToMessage(cached) IN
    IF decoded.ok
    THEN ResultValue(decoded.value)
    ELSE ResultStatus(absl_kInvalidArgument)

\* the V1SingleLookupResult of a key the cache returned a value for
Handler_FoundResult(cached) ==
    LET decoded == JsonStringToMessage(cached) IN
    IF decoded.ok
    THEN ResultValue(decoded.value)
    ELSE ResultValue(StringValue(cached))

\* the V1SingleLookupResult of one key
Handler_Result(kv_pairs, key) ==
    IF key \notin DOMAIN kv_pairs
    THEN ResultStatus(absl_kNotFound)
    ELSE Handler_FoundResult(kv_pairs[key])

\* variant: the emptiness test is inverted
Handler_CounterName_Inverted(kv_pairs) ==
    IF kv_pairs # EmptyMap THEN "CacheKeyMiss" ELSE "CacheKeyHit"

\* the counter ProcessKeys increments for what the cache returned
Handler_CounterName(kv_pairs) ==
    IF kv_pairs = EmptyMap THEN "CacheKeyMiss" ELSE "CacheKeyHit"

\* ProcessKeys: fills result_struct of one group; acc carries the metrics
\* and the cache calls made so far
Handler_ProcessKeys(keys, cache, acc) ==
    IF keys = <<>>
    THEN [result_struct |-> EmptyMap, counters |-> acc.counters, log |-> acc.log]
    ELSE LET actual_keys == GetKeys(keys)
             kv_pairs == Cache_GetKeyValuePairs(cache, actual_keys)
         IN [result_struct |-> [k \in actual_keys |-> Handler_Result(kv_pairs, k)],
             counters |-> IncrementEventCounter(acc.counters,
                                                Handler_CounterName(kv_pairs)),
             log |-> Append(acc.log, LogEntry("GetKeyValuePairs", actual_keys))]

\* variant: the render_urls block reads request.keys()
GetValues_GroupKeys_Pasted(req, group) ==
    IF group = "render_urls" THEN req["keys"] ELSE req[group]

\* the repeated field GetValues passes to ProcessKeys for a group
GetValues_GroupKeys(req, group) == req[group]

\* one "if (!request.<group>().empty()) ProcessKeys(...)" of GetValues
GetValues_Group(req, group, cache, acc) ==
    IF GetValues_GroupKeys(req, group) # <<>>
    THEN Handler_ProcessKeys(GetValues_GroupKeys(req, group), cache, acc)
    ELSE [result_struct |-> EmptyMap, counters |-> acc.counters, log |-> acc.log]

\* the requests of at most MaxEntries entries
GroupEntry == Groups \X Entries

RECURSIVE BuildRequest(_)
BuildRequest(items) ==
    IF items = <<>> THEN EmptyRequest
    ELSE LET last == items[Len(items)]
             r == BuildRequest(SubSeq(items, 1, Len(items) - 1))
         IN [r EXCEPT ![last[1]] = Append(@, last[2])]

Requests ==
    {BuildRequest(items) : items \in UNION {[1..n -> GroupEntry] : n \in 0..MaxEntries}}

\* GetValuesAdapter::CallV2Handler: the status the other path returns
CallV2Handler_Status == {"OK", "INTERNAL"}

\* GetValuesHandler::GetValues
GetValues(req) ==
    /\ CanStartCall
    /\ calls' = calls + 1
    /\ request' = req
    /\ snap' = Snapshot
    /\ IF use_v2
       THEN /\ grpc' \in CallV2Handler_Status
            /\ response' = EmptyResponse
            /\ log' = <<LogEntry("CallV2Handler", {})>>
            /\ UNCHANGED <<counters, processed>>
       ELSE LET acc0 == [counters |-> counters, log |-> <<>>]
                g1 == GetValues_Group(req, "kv_internal", kv, acc0)
                g2 == GetValues_Group(req, "keys", kv, g1)
                g3 == GetValues_Group(req, "render_urls", kv, g2)
                g4 == GetValues_Group(req, "ad_component_render_urls", kv, g3)
            IN /\ response' = [kv_internal |-> g1.result_struct,
                               keys |-> g2.result_struct,
                               render_urls |-> g3.result_struct,
                               ad_component_render_urls |-> g4.result_struct]
               /\ counters' = g4.counters
               /\ log' = g4.log
               /\ grpc' = "OK"
               /\ processed' = processed + Cardinality({g \in Groups : req[g] # <<>>})
    /\ pc' = "done"
    /\ UNCHANGED <<kv, sets, call, local, ret, use_v2>>

\* the RPC completes; request and response are gone
FinishRequest ==
    /\ pc = "done"
    /\ pc' = "idle"
    /\ request' = EmptyRequest
    /\ response' = EmptyResponse
    /\ grpc' = "none"
    /\ log' = <<>>
    /\ snap' = NoSnapshot
    /\ UNCHANGED <<kv, sets, counters, call, local, ret, calls, use_v2, processed>>

InitHandler ==
    /\ kv \in KVMaps
    /\ sets = EmptyMap
    /\ counters = EmptyCounters
    /\ log = <<>>
    /\ pc = "idle"
    /\ call = NoCall
    /\ local = NoLocal
    /\ ret = NoRet
    /\ snap = NoSnapshot
    /\ calls = 0
    /\ request = EmptyRequest
    /\ response = EmptyResponse
    /\ grpc = "none"
    /\ use_v2 \in BOOLEAN
    /\ processed = 0

NextHandler ==
    \/ CanStartCall /\ \E req \in Requests : GetValues(req)
    \/ FinishRequest
    \/ UpdateKeyValues

SpecHandler == InitHandler /\ [][NextHandler]_vars

-----------------------------------------------------------------------------
\* LocalLookup as a whole: any of its three operations, while a writer swaps
\* whole cache snapshots (both mappings at once).

\* what one key may hold in a snapshot: its point value and its value-set
KeyContents ==
    {[present |-> FALSE, value |-> "", set |-> {}],
     [present |-> TRUE, value |-> "1", set |-> {}],
     [present |-> TRUE, value |-> "1", set |-> {"x"}],
     [present |-> TRUE, value |-> "x", set |-> {"y"}],
     [present |-> TRUE, value |-> "x", set |-> {"x", "y"}]}

MakeSnapshot(f) ==
    LET present == {k \in DOMAIN f : f[k].present} IN
    [kv |-> [k \in present |-> f[k].value],
     sets |-> [k \in present |-> f[k].set]]

Snapshots == {MakeSnapshot(f) : f \in [CacheKeys -> KeyContents]}

SwapSnapshot ==
    /\ pc \notin {"done", "aborted"}
    /\ \E s \in Snapshots :
          /\ <<s.kv, s.sets>> # <<kv, sets>>
          /\ kv' = s.kv
          /\ sets' = s.sets
    /\ UNCHANGED <<counters, log, pc, call, local, ret, snap, calls>>
    /\ HandlerUnchanged

\* the empty query, the one-lexeme queries and every query that parses
LookupQueries == {q \in Queries : Len(q) <= 1 \/ Parse(q).parse_result = 0}

InitLookup ==
    /\ \E s \in Snapshots : kv = s.kv /\ sets = s.sets
    /\ LookupIdle

NextLookup ==
    \/ CanStartCall /\ \E keys \in SUBSET RequestKeys : GetKeyValues(keys)
    \/ ProcessKeys_Step
    \/ ProcessKeys_Return
    \/ CanStartCall /\ \E key_set \in SUBSET RequestKeys : GetKeyValueSet(key_set)
    \/ ProcessKeysetKeys_Step
    \/ ProcessKeysetKeys_Return
    \/ CanStartCall /\ \E query \in LookupQueries : RunQuery(query)
    \/ ProcessQuery_Fetch
    \/ ProcessQuery_Eval
    \/ Finish
    \/ SwapSnapshot

SpecLookup == InitLookup /\ [][NextLookup]_vars

-----------------------------------------------------------------------------
\* Properties.

LogEvents(ev) == {i \in 1..Len(log) : log[i].ev = ev}

CacheReads == LogEvents("GetKeyValuePairs") \cup LogEvents("GetKeyValueSet")

RunQueryReturned == pc = "done" /\ call.op = "RunQuery"

\* C1: RunQuery with the empty query string returns a successful result
\* whose element sequence is empty, and does not read the cache.
C1_EmptyQuerySucceeds ==
    (call.op = "RunQuery" /\ call.query = <<>>) =>
        /\ pc = "done"
        /\ ret.status = absl_kOk
        /\ ret.elements = <<>>
        /\ CacheReads = {}

\* C2: GetKeyValues(K) returns OK with exactly one entry per key of K: the
\* cached value for a key the cache holds, NotFound for a key it does not;
\* an empty K gives an empty response and no cache read.
C2_GetKeyValuesPerKey ==
    /\ pc # "aborted"
    /\ (pc = "done" /\ call.op = "GetKeyValues") =>
          /\ ret.status = absl_kOk
          /\ DOMAIN ret.kv_pairs = call.keys
          /\ \A k \in call.keys :
                ret.kv_pairs[k] = IF k \in DOMAIN snap.kv
                                  THEN ResultValue(snap.kv[k])
                                  ELSE ResultStatus(absl_kNotFound)
          /\ (call.keys = {} => CacheReads = {})
          /\ (call.keys # {} => log = <<LogEntry("GetKeyValuePairs", call.keys)>>)

C2_Witness ==
    /\ pc = "done" /\ call.op = "GetKeyValues"
    /\ \E k1, k2 \in call.keys :
          /\ ret.kv_pairs[k1].kind = "value"
          /\ ret.kv_pairs[k2].kind = "status"

\* the groups of the request that are not empty, and those of them with at
\* least one individual key in the cache as it was when the request came
NonEmptyGroups == {g \in Groups : request[g] # <<>>}
HitGroups == {g \in NonEmptyGroups : GetKeys(request[g]) \cap DOMAIN snap.kv # {}}
MissGroups == NonEmptyGroups \ HitGroups

DirectReturned == pc = "done" /\ ~use_v2 /\ grpc # "none"

\* C3: on the direct path every non-empty group increments exactly one of
\* CacheKeyHit (some key of the group found) and CacheKeyMiss (none found),
\* once; over all requests hits + misses is the number of non-empty groups.
C3_HitOrMissPerGroup ==
    /\ ~use_v2 => counters.CacheKeyHit + counters.CacheKeyMiss = processed
    /\ DirectReturned =>
          /\ counters.CacheKeyHit = snap.counters.CacheKeyHit + Cardinality(HitGroups)
          /\ counters.CacheKeyMiss = snap.counters.CacheKeyMiss + Cardinality(MissGroups)

C3_Witness ==
    /\ DirectReturned
    /\ calls = 2
    /\ HitGroups # {}
    /\ MissGroups # {}
    /\ snap.counters.CacheKeyHit + snap.counters.CacheKeyMiss > 0

\* the query of the current call is not empty and does not parse
QueryIsMalformed ==
    call.op = "RunQuery" /\ call.query # <<>> /\ Parse(call.query).parse_result # 0

\* C4: a non-empty query that fails to parse ends RunQuery with an error and
\* nothing else: no elements, no evaluation, no cache read.
C4_ParseFailureIsTerminal ==
    QueryIsMalformed =>
        /\ pc = "done"
        /\ ret.status \notin {absl_kOk, "none"}
        /\ ret.elements = <<>>
        /\ log = <<LogEntry("parse", {})>>

C4_Witness ==
    /\ QueryIsMalformed
    /\ pc = "done"
    /\ call.query = <<"a", "UNION">>

\* C5: in a successful RunQuery the parse comes first, then one cache read
\* with exactly the leaf keys of the AST, then the evaluation; no leaf is
\* resolved before the cache result is there, and the cache is read once.
C5_ParseFetchEvaluate ==
    /\ \A i \in LogEvents("callback") : \E j \in LogEvents("GetKeyValueSet") : j < i
    /\ Cardinality(CacheReads) <= 1
    /\ (RunQueryReturned /\ ret.status = absl_kOk) =>
          /\ Len(log) >= 3
          /\ log[1] = LogEntry("parse", {})
          /\ log[2] = LogEntry("GetKeyValueSet", Keys(Parse(call.query).ast))
          /\ log[3] = LogEntry("GetResult", {})
          /\ \A i \in 4..Len(log) : log[i].ev = "callback"

C5_Witness ==
    /\ RunQueryReturned
    /\ ret.status = absl_kOk
    /\ Cardinality(log[2].keys) = 2
    /\ Len(log) = 5

\* what a per-key result of GetKeyValueSet must be for a value-set
KeysetResultMatches(result, value_set) ==
    IF value_set = {}
    THEN result = ResultStatus(absl_kNotFound)
    ELSE /\ result.kind = "keyset_values"
         /\ Range(result.value) = value_set
         /\ Len(result.value) = Cardinality(value_set)

\* the value-set a key has in a sets mapping, empty when the key is absent
ValueSetIn(m, key) == IF key \in DOMAIN m THEN m[key] ELSE {}

\* C6: every result of one call is the content of one snapshot, the one the
\* cache held when the call read it, whatever the writer swaps meanwhile.
C6_OneSnapshotPerCall ==
    (pc = "done" /\ ret.status = absl_kOk) =>
        /\ call.op = "GetKeyValues" =>
              \A k \in call.keys :
                 ret.kv_pairs[k] = IF k \in DOMAIN snap.kv
                                   THEN ResultValue(snap.kv[k])
                                   ELSE ResultStatus(absl_kNotFound)
        /\ call.op = "GetKeyValueSet" =>
              \A k \in call.keys :
                 KeysetResultMatches(ret.kv_pairs[k], ValueSetIn(snap.sets, k))
        /\ call.op = "RunQuery" =>
              Range(ret.elements) =
                 Eval(Parse(call.query).ast, [bound |-> TRUE, data |-> snap.sets])

\* a query over two keys returned, and the writer has swapped the snapshot
\* since the fetch so that the query has another value now
C6_Witness ==
    /\ RunQueryReturned
    /\ ret.status = absl_kOk
    /\ Cardinality(Keys(local.ast)) = 2
    /\ snap.sets # sets
    /\ Range(ret.elements) # Eval(local.ast, [bound |-> TRUE, data |-> sets])

\* C7: GetKeyValueSet(K) returns OK with one entry per key of K: all the
\* elements of a non-empty value-set, NotFound for an empty or absent one;
\* KeysetNotFound goes up by one for each key of K with an empty set.
C7_GetKeyValueSetPerKey ==
    (pc = "done" /\ call.op = "GetKeyValueSet") =>
        /\ ret.status = absl_kOk
        /\ DOMAIN ret.kv_pairs = call.keys
        /\ \A k \in call.keys :
              KeysetResultMatches(ret.kv_pairs[k], ValueSetIn(snap.sets, k))
        /\ counters.KeysetNotFound =
              snap.counters.KeysetNotFound +
              Cardinality({k \in call.keys : ValueSetIn(snap.sets, k) = {}})

C7_Witness ==
    /\ pc = "done" /\ call.op = "GetKeyValueSet"
    /\ call.keys = {KeyA, KeyB, KeyC}
    /\ KeyA \in DOMAIN snap.sets /\ snap.sets[KeyA] = {}
    /\ KeyB \in DOMAIN snap.sets /\ Cardinality(snap.sets[KeyB]) = 2
    /\ counters.KeysetNotFound = snap.counters.KeysetNotFound + 2

\* text has a delimiter-free piece equal to key that starts at the front or
\* after a delimiter and ends at the back or before a delimiter
IsPieceOf(key, text) ==
    /\ \A i \in 1..Len(key) : key[i] # Delimiter
    /\ \E start \in 1..(Len(text) + 1) :
          LET end == start + Len(key) - 1 IN
          /\ end <= Len(text)
          /\ start = 1 \/ text[start - 1] = Delimiter
          /\ end = Len(text) \/ text[end + 1] = Delimiter
          /\ \A i \in 1..Len(key) : text[start + i - 1] = key[i]

\* the contiguous parts of a text
Segments(text) ==
    {SubSeq(text, a, b) : a \in 1..(Len(text) + 1), b \in 0..Len(text)}

\* the individual keys of a group's entries
IndividualKeys(entries) ==
    {k \in UNION {Segments(entries[i]) : i \in 1..Len(entries)} :
        \E i \in 1..Len(entries) : IsPieceOf(k, entries[i])}

\* what the response map of a group must be for the cache content
ExpectedGroup(entries, cache) ==
    [k \in GetKeys(entries) |->
        IF k \in DOMAIN cache THEN Handler_FoundResult(cache[k])
        ELSE ResultStatus(absl_kNotFound)]

\* the cache reads a request must cause, in the order of the groups
ExpectedReads ==
    LET read(g) == IF request[g] = <<>> THEN <<>>
                   ELSE <<LogEntry("GetKeyValuePairs", GetKeys(request[g]))>>
    IN read("kv_internal") \o read("keys") \o read("render_urls")
          \o read("ad_component_render_urls")

\* C8: on the direct path each group is empty-checked on its own: an empty
\* group reads nothing, counts nothing and leaves its map empty, the others
\* are processed all the same, each from its own keys and the cache; OK.
C8_GroupsAreIndependent ==
    DirectReturned =>
        /\ grpc = "OK"
        /\ \A g \in Groups :
              IF request[g] = <<>>
              THEN response[g] = EmptyMap
              ELSE response[g] = ExpectedGroup(request[g], snap.kv)
        /\ log = ExpectedReads
        /\ counters.CacheKeyHit + counters.CacheKeyMiss =
              snap.counters.CacheKeyHit + snap.counters.CacheKeyMiss
                 + Cardinality(NonEmptyGroups)

C8_Witness ==
    /\ DirectReturned
    /\ request["kv_internal"] = <<>>
    /\ request["keys"] # <<>>
    /\ request["render_urls"] = <<>>
    /\ request["ad_component_render_urls"] # <<>>
    /\ response["keys"] # response["ad_component_render_urls"]

\* C9: a cached value that does not decode is not an error: a key the cache
\* holds gets a value, decoded or else the raw string; only a key the cache
\* does not hold gets NotFound; the call returns OK.
C9_DecodeFailureFallsBack ==
    DirectReturned =>
        /\ grpc = "OK"
        /\ \A g \in Groups : \A k \in DOMAIN response[g] :
              IF k \in DOMAIN snap.kv
              THEN /\ response[g][k].kind = "value"
                   /\ response[g][k].value =
                         IF JsonStringToMessage(snap.kv[k]).ok
                         THEN JsonStringToMessage(snap.kv[k]).value
                         ELSE StringValue(snap.kv[k])
              ELSE response[g][k] = ResultStatus(absl_kNotFound)

C9_Witness ==
    /\ DirectReturned
    /\ \E g \in Groups : \E k1, k2 \in DOMAIN response[g] :
          /\ response[g][k1] = ResultValue(StringValue("x"))
          /\ response[g][k2] = ResultValue(NumberValue(1))

\* C10: a non-empty group is split on the delimiter and deduplicated; the
\* cache is read once with that key set, and the group's map has one entry
\* for each of those keys and for nothing else.
C10_SplitAndDeduplicate ==
    DirectReturned =>
        /\ Len(log) = Cardinality(NonEmptyGroups)
        /\ \A g \in NonEmptyGroups :
              /\ DOMAIN response[g] = IndividualKeys(request[g])
              /\ \E i \in 1..Len(log) :
                    log[i] = LogEntry("GetKeyValuePairs", IndividualKeys(request[g]))

C10_Witness ==
    /\ DirectReturned
    /\ request["keys"] = <<<<"a", ",", "b">>, <<"b", ",">>>>
    /\ DOMAIN response["keys"] = {<<"a">>, <<"b">>, <<>>}

====
